---------------------------- MODULE Spec2Model ----------------------------
(***************************************************************************)
(* A model of preprocess_dataset.py: the primary and the secondary label   *)
(* CSV are read into emotion -> image-name-set maps, the two are combined, *)
(* and every emotion with enough images is cut into a fixed test set and a *)
(* ladder of nested training sets whose files are copied into the output   *)
(* tree.                                                                   *)
(*                                                                         *)
(* A Python str is a sequence of one-character strings, so that strip(),   *)
(* lower() and the str ordering used by list.sort() are computed and not   *)
(* assumed.  A CSV file is the sequence of its rows, a row the sequence of *)
(* its three columns (row[0], row[1], row[2] are positions 1, 2, 3 here).  *)
(***************************************************************************)
EXTENDS Integers, Sequences, FiniteSets, TLC

\* ------------------------------------------------------------------------
\* Bounds of the model and constants of the program
\* ------------------------------------------------------------------------

\* Image files are named by the decimal numerals of 1 .. MaxImage.
MaxImage == 63

\* `len(images) < 60`, `images[:60]`
MinImages == 60

\* `selected_images[-10:]`, `selected_images[:-10]`
TestSize == 10

\* `training_sizes = [10, 20, 30, 40, 50]`
training_sizes == <<10, 20, 30, 40, 50>>

\* ------------------------------------------------------------------------
\* Python str operations
\* ------------------------------------------------------------------------

\* The code points of the characters of the model
CodePoint ==
  ("\t" :> 9) @@ ("\n" :> 10) @@ (" " :> 32) @@ ("." :> 46) @@ ("0" :> 48)
  @@ ("1" :> 49) @@ ("2" :> 50) @@ ("3" :> 51) @@ ("4" :> 52) @@ ("5" :> 53)
  @@ ("6" :> 54) @@ ("7" :> 55) @@ ("8" :> 56) @@ ("9" :> 57) @@ ("A" :> 65)
  @@ ("B" :> 66) @@ ("C" :> 67) @@ ("D" :> 68) @@ ("E" :> 69) @@ ("F" :> 70)
  @@ ("G" :> 71) @@ ("H" :> 72) @@ ("I" :> 73) @@ ("J" :> 74) @@ ("K" :> 75)
  @@ ("L" :> 76) @@ ("M" :> 77) @@ ("N" :> 78) @@ ("O" :> 79) @@ ("P" :> 80)
  @@ ("Q" :> 81) @@ ("R" :> 82) @@ ("S" :> 83) @@ ("T" :> 84) @@ ("U" :> 85)
  @@ ("V" :> 86) @@ ("W" :> 87) @@ ("X" :> 88) @@ ("Y" :> 89) @@ ("Z" :> 90)
  @@ ("_" :> 95) @@ ("a" :> 97) @@ ("b" :> 98) @@ ("c" :> 99) @@ ("d" :> 100)
  @@ ("e" :> 101) @@ ("f" :> 102) @@ ("g" :> 103) @@ ("h" :> 104) @@ ("i" :> 105)
  @@ ("j" :> 106) @@ ("k" :> 107) @@ ("l" :> 108) @@ ("m" :> 109) @@ ("n" :> 110)
  @@ ("o" :> 111) @@ ("p" :> 112) @@ ("q" :> 113) @@ ("r" :> 114) @@ ("s" :> 115)
  @@ ("t" :> 116) @@ ("u" :> 117) @@ ("v" :> 118) @@ ("w" :> 119) @@ ("x" :> 120)
  @@ ("y" :> 121) @@ ("z" :> 122)

\* ord(c)
Ord(c) == CodePoint[c]

\* str.isspace() on the characters of the model
IsSpace(c) == c \in {" ", "\t", "\n"}

\* The lower case of the upper case letters
LowerCase ==
  ("A" :> "a") @@ ("B" :> "b") @@ ("C" :> "c") @@ ("D" :> "d") @@ ("E" :> "e") @@ ("F" :> "f")
  @@ ("G" :> "g") @@ ("H" :> "h") @@ ("I" :> "i") @@ ("J" :> "j") @@ ("K" :> "k") @@ ("L" :> "l")
  @@ ("M" :> "m") @@ ("N" :> "n") @@ ("O" :> "o") @@ ("P" :> "p") @@ ("Q" :> "q") @@ ("R" :> "r")
  @@ ("S" :> "s") @@ ("T" :> "t") @@ ("U" :> "u") @@ ("V" :> "v") @@ ("W" :> "w") @@ ("X" :> "x")
  @@ ("Y" :> "y") @@ ("Z" :> "z")

LowerChar(c) == IF c \in DOMAIN LowerCase THEN LowerCase[c] ELSE c

\* str.lower()
RECURSIVE Lower(_)
Lower(s) == IF s = <<>> THEN <<>> ELSE <<LowerChar(Head(s))>> \o Lower(Tail(s))

RECURSIVE LStrip(_)
LStrip(s) == IF s # <<>> /\ IsSpace(Head(s)) THEN LStrip(Tail(s)) ELSE s

RECURSIVE RStrip(_)
RStrip(s) ==
  IF s # <<>> /\ IsSpace(s[Len(s)]) THEN RStrip(SubSeq(s, 1, Len(s) - 1)) ELSE s

\* str.strip()
Strip(s) == RStrip(LStrip(s))

\* `row[2].strip().lower()`
NormalizeEmotion(label) == Lower(Strip(label))

\* `a < b` on str: the order list.sort() uses.
RECURSIVE StrLess(_, _)
StrLess(a, b) ==
  IF b = <<>> THEN FALSE
  ELSE IF a = <<>> THEN TRUE
  ELSE IF Head(a) # Head(b) THEN Ord(Head(a)) < Ord(Head(b))
  ELSE StrLess(Tail(a), Tail(b))

\* ------------------------------------------------------------------------
\* Python list, set and dict operations
\* ------------------------------------------------------------------------

Reverse(s) == [i \in 1..Len(s) |-> s[Len(s) + 1 - i]]

\* `s[:n]` for n >= 0
Prefix(s, n) == SubSeq(s, 1, IF n < Len(s) THEN n ELSE Len(s))

\* `s[-n:]` for n > 0
LastN(s, n) == SubSeq(s, (IF Len(s) > n THEN Len(s) - n ELSE 0) + 1, Len(s))

\* `s[:-n]` for n > 0
DropLastN(s, n) == SubSeq(s, 1, IF Len(s) > n THEN Len(s) - n ELSE 0)

Range(s) == {s[i] : i \in 1..Len(s)}

\* The mutant of SortList: the list is left in the order the set gave it.
SortListOmitted(s) == s

\* `images.sort()`: the list in ascending str order.
SortList(s) == SortSeq(s, StrLess)

RECURSIVE Enumerate(_)
Enumerate(S) ==
  IF S = {} THEN <<>>
  ELSE LET x == CHOOSE y \in S : TRUE IN <<x>> \o Enumerate(S \ {x})

\* Iterating a set of str: the order follows the str hashes, which Python
\* randomizes per process; `seed` stands for the process's hash seed.
IterSet(S, seed) == IF seed = 0 THEN Enumerate(S) ELSE Reverse(Enumerate(S))

\* `s.add(v)`: the set is enumerated, so that a chain of additions is not
\* kept as a chain of unions.
SetAdd(S, v) == {x : x \in S \cup {v}}

\* `d.get(k, set())`, and `d[k]` of a defaultdict(set) read-only use
Get(d, k) == IF k \in DOMAIN d THEN d[k] ELSE {}

\* `d[k].add(v)` on a defaultdict(set)
AddTo(d, k, v) ==
  IF k \in DOMAIN d THEN [d EXCEPT ![k] = SetAdd(@, v)] ELSE d @@ (k :> {v})

EmptyDict == [x \in {} |-> {}]

\* The union of a dict's values
Values(d) == UNION {d[k] : k \in DOMAIN d}


\* ------------------------------------------------------------------------
\* State
\* ------------------------------------------------------------------------

VARIABLES
  primary_csv,               \* the rows of the file at primary_csv_path
  secondary_csv_path,        \* TRUE when -s/--secondary_csv is given
  secondary_csv,             \* the rows of the file at secondary_csv_path
  image_dir,                 \* the names of the files in image_dir
  hash_seed,                 \* the process's str hash seed (set iteration order)
  pc,                        \* the position in organize_dataset
  primary_emotion_images,    \* dict: emotion -> set of image names
  valid_emotions,            \* set of emotions of the primary CSV
  primary_image_names,       \* set of all primary image names
  secondary_emotion_images,  \* dict: emotion -> set of image names
  dirs,                      \* directories under output_dir: <<split, emotion>>
  combined_emotion_images,   \* dict: emotion -> set of image names
  emotion_index,             \* position of `for emotion in valid_emotions`
  images,                    \* the loop body's sorted list
  assigned,                  \* <<split, emotion>> -> the list the loop body selected
  copied,                    \* files under output_dir: <<split, emotion, image>>
  stdout                     \* the lines printed so far

vars ==
  <<primary_csv, secondary_csv_path, secondary_csv, image_dir, hash_seed, pc,
    primary_emotion_images, valid_emotions, primary_image_names,
    secondary_emotion_images, dirs, combined_emotion_images, emotion_index,
    images, assigned, copied, stdout>>

inputs == <<primary_csv, secondary_csv_path, secondary_csv, image_dir, hash_seed>>

\* ------------------------------------------------------------------------
\* read_labels
\* ------------------------------------------------------------------------

\* `next(reader)`: the first row is skipped, whatever it holds.
DataRows(csv) == Tail(csv)

\* `row[1]`, `row[2]` raise IndexError on a row of fewer than three columns.
IndexError(row) == Len(row) < 3

\* The body of read_labels' loop: acc is [emotion_images, emotions_set,
\* crashed]; an exception ends the run.
ReadLabelsRow(acc, row) ==
  IF IndexError(row) THEN [acc EXCEPT !.crashed = TRUE]
  ELSE LET image_name == row[2]
           emotion    == NormalizeEmotion(row[3])
       IN  [acc EXCEPT !.emotion_images = AddTo(@, emotion, image_name),
                       !.emotions_set = SetAdd(@, emotion)]

\* `for row in reader`: the rows in file order, up to the first exception
\* (the list is halved only to keep the evaluation shallow).
RECURSIVE ReadLabelsRows(_, _)
ReadLabelsRows(acc, rows) ==
  IF acc.crashed \/ rows = <<>> THEN acc
  ELSE IF Len(rows) = 1 THEN ReadLabelsRow(acc, rows[1])
  ELSE LET h == Len(rows) \div 2
       IN  ReadLabelsRows(ReadLabelsRows(acc, SubSeq(rows, 1, h)),
                          SubSeq(rows, h + 1, Len(rows)))

\* read_labels(csv_path): [emotion_images, emotions_set, crashed]
read_labels(csv) ==
  ReadLabelsRows([emotion_images |-> EmptyDict, emotions_set |-> {},
                  crashed |-> FALSE],
                 DataRows(csv))

\* ------------------------------------------------------------------------
\* read_secondary_labels
\* ------------------------------------------------------------------------

Str_sadness   == <<"s","a","d","n","e","s","s">>
Str_sad       == <<"s","a","d">>
Str_happiness == <<"h","a","p","p","i","n","e","s","s">>
Str_happy     == <<"h","a","p","p","y">>
Str_fearful   == <<"f","e","a","r","f","u","l">>
Str_fear      == <<"f","e","a","r">>

\* The dict literal of organize_dataset
label_mapping ==
  [k \in {Str_sadness, Str_happiness, Str_fearful} |->
     IF k = Str_sadness THEN Str_sad
     ELSE IF k = Str_happiness THEN Str_happy
     ELSE Str_fear]

\* The mutant of MapLabel: the synonym table is not applied.
MapLabelOmitted(mapping, emotion) == emotion

\* `label_mapping.get(emotion, emotion)`
MapLabel(mapping, emotion) ==
  IF emotion \in DOMAIN mapping THEN mapping[emotion] ELSE emotion

\* The mutant of NotInPrimary: the primary names are not looked at.
NotInPrimaryOmitted(image_name, primary_names) == TRUE

\* `image_name not in primary_image_names`
NotInPrimary(image_name, primary_names) == image_name \notin primary_names

\* The body of read_secondary_labels' loop: acc is [emotion_images, crashed].
ReadSecondaryRow(acc, row, valid, mapping, primary_names) ==
  IF IndexError(row) THEN [acc EXCEPT !.crashed = TRUE]
  ELSE LET image_name == row[2]
           emotion    == MapLabel(mapping, NormalizeEmotion(row[3]))
       IN  IF emotion \in valid /\ NotInPrimary(image_name, primary_names)
             THEN [acc EXCEPT !.emotion_images = AddTo(@, emotion, image_name)]
             ELSE acc

\* `for row in reader`: the rows in file order, up to the first exception
RECURSIVE ReadSecondaryRows(_, _, _, _, _)
ReadSecondaryRows(acc, rows, valid, mapping, primary_names) ==
  IF acc.crashed \/ rows = <<>> THEN acc
  ELSE IF Len(rows) = 1
    THEN ReadSecondaryRow(acc, rows[1], valid, mapping, primary_names)
  ELSE LET h == Len(rows) \div 2
       IN  ReadSecondaryRows(
             ReadSecondaryRows(acc, SubSeq(rows, 1, h), valid, mapping, primary_names),
             SubSeq(rows, h + 1, Len(rows)), valid, mapping, primary_names)

read_secondary_labels(csv, valid, mapping, primary_names) ==
  ReadSecondaryRows([emotion_images |-> EmptyDict, crashed |-> FALSE],
                    DataRows(csv), valid, mapping, primary_names)

\* ------------------------------------------------------------------------
\* create_directories
\* ------------------------------------------------------------------------

\* os.path.join(output_dir, 'test')
TestSplit == <<"test">>

\* os.path.join(output_dir, f'train_{size}')
TrainSplit(size) == <<"train_", size>>

\* The mutant of DirectoriesFor: the test directories are not made.
DirectoriesForTrainOnly(emotions, sizes) ==
  {<<TrainSplit(sizes[i]), e>> : i \in 1..Len(sizes), e \in emotions}

\* The directories create_directories makes (os.makedirs, exist_ok=True)
DirectoriesFor(emotions, sizes) ==
  {<<TestSplit, e>> : e \in emotions}
    \cup {<<TrainSplit(sizes[i]), e>> : i \in 1..Len(sizes), e \in emotions}

\* ------------------------------------------------------------------------
\* The body of `for emotion in valid_emotions`
\* ------------------------------------------------------------------------

\* The mutant of TooFew: the threshold is off by one.
TooFewOffByOne(image_list) == Len(image_list) < MinImages - 1

\* `len(images) < 60`
TooFew(image_list) == Len(image_list) < MinImages

\* The mutant of SelectedImages: the last 60 instead of the first 60.
SelectedImagesLast(image_list) == LastN(image_list, MinImages)

\* `selected_images = images[:60]`
SelectedImages(image_list) == Prefix(image_list, MinImages)

\* The mutant of TestImages: one image too many.
TestImagesOneMore(selected) == LastN(selected, TestSize + 1)

\* `test_images = selected_images[-10:]`
TestImages(selected) == LastN(selected, TestSize)

\* `training_images_full = selected_images[:-10]`
TrainingImagesFull(selected) == DropLastN(selected, TestSize)

\* `train_images = training_images_full[:size]`
TrainImages(full, size) == Prefix(full, size)

\* The message of a missing image
MissingWarning(image_name) == [msg |-> "not found", image |-> image_name]

\* The message of a skipped emotion
CountWarning(emotion, n) == [msg |-> "too few", emotion |-> emotion, count |-> n]

SuccessMessage == [msg |-> "success"]

\* The mutant of CopyImage: shutil.copy without the os.path.exists guard,
\* which raises on a missing source.
CopyImageUnguarded(st, split, emotion, image_name) ==
  IF st.crashed THEN st
  ELSE IF image_name \in image_dir /\ <<split, emotion>> \in dirs
    THEN [st EXCEPT !.copied = @ \cup {<<split, emotion, image_name>>}]
    ELSE [st EXCEPT !.crashed = TRUE]

\* One pass of a copy loop.  st is [copied, stdout, crashed]; shutil.copy
\* into a directory that does not exist raises, which ends the run.
CopyImage(st, split, emotion, image_name) ==
  IF st.crashed THEN st
  ELSE IF image_name \in image_dir
    THEN IF <<split, emotion>> \in dirs
           THEN [st EXCEPT !.copied = @ \cup {<<split, emotion, image_name>>}]
           ELSE [st EXCEPT !.crashed = TRUE]
    ELSE [st EXCEPT !.stdout = Append(@, MissingWarning(image_name))]

\* `for image_name in images: ...`
RECURSIVE CopyImages(_, _, _, _)
CopyImages(st, split, emotion, image_list) ==
  IF st.crashed \/ image_list = <<>> THEN st
  ELSE IF Len(image_list) = 1 THEN CopyImage(st, split, emotion, image_list[1])
  ELSE LET h == Len(image_list) \div 2
       IN  CopyImages(CopyImages(st, split, emotion, SubSeq(image_list, 1, h)),
                      split, emotion, SubSeq(image_list, h + 1, Len(image_list)))

\* `for size in training_sizes: ...`
RECURSIVE CopyTrainingSets(_, _, _, _)
CopyTrainingSets(st, emotion, full, sizes) ==
  IF st.crashed \/ sizes = <<>> THEN st
  ELSE CopyTrainingSets(
         CopyImages(st, TrainSplit(Head(sizes)), emotion,
                    TrainImages(full, Head(sizes))),
         emotion, full, Tail(sizes))

\* The lists the loop body selects for one emotion
Assignment(emotion, selected) ==
  [d \in {<<TestSplit, emotion>>}
          \cup {<<TrainSplit(training_sizes[i]), emotion>> :
                  i \in 1..Len(training_sizes)} |->
     IF d[1] = TestSplit THEN TestImages(selected)
     ELSE TrainImages(TrainingImagesFull(selected), d[1][2])]

\* `for emotion in valid_emotions`: the order of the iteration
EmotionOrder == IterSet(valid_emotions, hash_seed)

\* `images = list(combined_emotion_images[emotion]); images.sort()`
SortedImages(emotion) ==
  SortList(IterSet(combined_emotion_images[emotion], hash_seed))

\* ------------------------------------------------------------------------
\* The inputs of a run
\* ------------------------------------------------------------------------

Digits == <<"0","1","2","3","4","5","6","7","8","9">>

\* The decimal numeral of n: the name of image file n
RECURSIVE Dec(_)
Dec(n) ==
  IF n < 10 THEN <<Digits[n + 1]>>
  ELSE Dec(n \div 10) \o <<Digits[(n % 10) + 1]>>

AllImageNames == {Dec(n) : n \in 1..MaxImage}

HeaderRow == << <<>>, <<"i","m","a","g","e">>, <<"e","m","o","t","i","o","n">> >>

LabelRow(n, label) == << <<>>, Dec(n), label >>

\* The spellings of "happy" in the primary CSV
PrimaryHappy(n) ==
  IF n % 3 = 0 THEN <<"H","a","p","p","y">>
  ELSE IF n % 3 = 1 THEN <<" ","h","a","p","p","y">>
  ELSE <<"H","A","P","P","Y"," ">>

\* The spellings of "happy" in the secondary CSV
SecondaryHappy(n) == IF n % 2 = 0 THEN Str_happy ELSE Str_happiness

\* A label row for each of the images lo .. hi
PrimaryHappyRows(lo, hi) ==
  [i \in 1..(hi - lo + 1) |-> LabelRow(lo + i - 1, PrimaryHappy(lo + i - 1))]

SecondaryHappyRows(lo, hi) ==
  [i \in 1..(hi - lo + 1) |-> LabelRow(lo + i - 1, SecondaryHappy(lo + i - 1))]

PrimarySadRows(lo, hi) ==
  [i \in 1..(hi - lo + 1) |-> LabelRow(lo + i - 1, <<"S","a","d">>)]

\* The label rows of a primary CSV: images lo .. hi are happy; with more = 1
\* image 5 is also sad and the last image is fear, with more = 2 the
\* MinImages - 1 images from 5 on are also sad.
PrimaryRows(lo, hi, more) ==
  PrimaryHappyRows(lo, hi)
    \o (IF more = 1
          THEN <<LabelRow(5, Str_sad), LabelRow(MaxImage, <<"F","e","a","r"," ">>)>>
        ELSE IF more = 2 THEN PrimarySadRows(5, MinImages + 3)
        ELSE <<>>)

\* The label rows of a secondary CSV: with fill, images 1, 2 and hi - 1 ..
\* MaxImage are happy; extra rows label image 2 sad and image 1 fear.
SecondaryRows(hi, fill, extra) ==
  (IF fill THEN SecondaryHappyRows(1, 2) \o SecondaryHappyRows(hi - 1, MaxImage)
   ELSE <<>>)
    \o (IF extra
          THEN <<LabelRow(2, <<"S","a","d","n","e","s","s">>), LabelRow(1, Str_fearful)>>
        ELSE <<>>)

CsvFile(rows, reversed) == <<HeaderRow>> \o (IF reversed THEN Reverse(rows) ELSE rows)

\* organize_dataset is entered with its arguments; nothing is read yet.
Init ==
  /\ \E lo \in {1, 3}, hi \in (MaxImage - 3)..(MaxImage - 1),
        more \in 0..2, reversed \in BOOLEAN :
       /\ primary_csv = CsvFile(PrimaryRows(lo, hi, more), reversed)
       /\ \/ /\ secondary_csv_path = FALSE
             /\ secondary_csv = <<>>
          \/ /\ secondary_csv_path = TRUE
             /\ \E fill \in BOOLEAN, extra \in BOOLEAN :
                  secondary_csv = CsvFile(SecondaryRows(hi, fill, extra), reversed)
  /\ \E missing \in {{}, {Dec(8), Dec(10)}} : image_dir = AllImageNames \ missing
  /\ hash_seed \in {0, 1}
  /\ pc = "read_labels"
  /\ primary_emotion_images = EmptyDict
  /\ valid_emotions = {}
  /\ primary_image_names = {}
  /\ secondary_emotion_images = EmptyDict
  /\ dirs = {}
  /\ combined_emotion_images = EmptyDict
  /\ emotion_index = 1
  /\ images = <<>>
  /\ assigned = EmptyDict
  /\ copied = {}
  /\ stdout = <<>>

\* ------------------------------------------------------------------------
\* organize_dataset, step by step
\* ------------------------------------------------------------------------

\* Lines 72-76: the primary CSV is read and its image names are collected.
ReadLabels ==
  /\ pc = "read_labels"
  /\ LET r == read_labels(primary_csv)
     IN  /\ primary_emotion_images' = r.emotion_images
         /\ valid_emotions' = r.emotions_set
         /\ primary_image_names' = Values(r.emotion_images)
         /\ pc' = IF r.crashed THEN "crashed" ELSE "read_secondary"
  /\ UNCHANGED <<inputs, secondary_emotion_images, dirs, combined_emotion_images,
                 emotion_index, images, assigned, copied, stdout>>

\* Lines 80-89: `if secondary_csv_path:` holds.
ReadSecondaryLabels ==
  /\ pc = "read_secondary"
  /\ secondary_csv_path
  /\ LET r == read_secondary_labels(secondary_csv, valid_emotions,
                                    label_mapping, primary_image_names)
     IN  /\ secondary_emotion_images' = r.emotion_images
         /\ pc' = IF r.crashed THEN "crashed" ELSE "create_directories"
  /\ UNCHANGED <<inputs, primary_emotion_images, valid_emotions,
                 primary_image_names, dirs, combined_emotion_images,
                 emotion_index, images, assigned, copied, stdout>>

\* Lines 79-80: no secondary CSV; the defaultdict stays empty.
NoSecondaryLabels ==
  /\ pc = "read_secondary"
  /\ ~secondary_csv_path
  /\ pc' = "create_directories"
  /\ UNCHANGED <<inputs, primary_emotion_images, valid_emotions,
                 primary_image_names, secondary_emotion_images, dirs,
                 combined_emotion_images, emotion_index, images, assigned, copied, stdout>>

\* Line 91
CreateDirectories ==
  /\ pc = "create_directories"
  /\ dirs' = dirs \cup DirectoriesFor(valid_emotions, training_sizes)
  /\ pc' = "combine"
  /\ UNCHANGED <<inputs, primary_emotion_images, valid_emotions,
                 primary_image_names, secondary_emotion_images,
                 combined_emotion_images, emotion_index, images, assigned, copied, stdout>>

\* Lines 94-99
CombineImages ==
  /\ pc = "combine"
  /\ combined_emotion_images' =
       [e \in valid_emotions |->
          primary_emotion_images[e] \cup Get(secondary_emotion_images, e)]
  /\ pc' = "process"
  /\ emotion_index' = 1
  /\ UNCHANGED <<inputs, primary_emotion_images, valid_emotions,
                 primary_image_names, secondary_emotion_images, dirs,
                 images, assigned, copied, stdout>>

\* Lines 102-105: the next emotion's images are listed and sorted.
SortImages ==
  /\ pc = "process"
  /\ emotion_index <= Len(EmotionOrder)
  /\ images' = SortedImages(EmotionOrder[emotion_index])
  /\ pc' = "check"
  /\ UNCHANGED <<inputs, primary_emotion_images, valid_emotions,
                 primary_image_names, secondary_emotion_images, dirs,
                 combined_emotion_images, emotion_index, assigned, copied, stdout>>

\* Lines 107-109: an emotion with too few images is reported and skipped.
SkipEmotion ==
  /\ pc = "check"
  /\ TooFew(images)
  /\ stdout' = Append(stdout, CountWarning(EmotionOrder[emotion_index], Len(images)))
  /\ emotion_index' = emotion_index + 1
  /\ pc' = "process"
  /\ UNCHANGED <<inputs, primary_emotion_images, valid_emotions,
                 primary_image_names, secondary_emotion_images, dirs,
                 combined_emotion_images, images, assigned, copied>>

\* Lines 110-135: the emotion is split and its images are copied.
SplitEmotion ==
  /\ pc = "check"
  /\ ~TooFew(images)
  /\ LET emotion  == EmotionOrder[emotion_index]
         selected == SelectedImages(images)
         st0      == [copied |-> copied, stdout |-> stdout, crashed |-> FALSE]
         st1      == CopyImages(st0, TestSplit, emotion, TestImages(selected))
         st2      == CopyTrainingSets(st1, emotion, TrainingImagesFull(selected),
                                      training_sizes)
     IN  /\ assigned' = assigned @@ Assignment(emotion, selected)
         /\ copied' = st2.copied
         /\ stdout' = st2.stdout
         /\ pc' = IF st2.crashed THEN "crashed" ELSE "process"
  /\ emotion_index' = emotion_index + 1
  /\ UNCHANGED <<inputs, primary_emotion_images, valid_emotions,
                 primary_image_names, secondary_emotion_images, dirs,
                 combined_emotion_images, images>>

\* Line 137
Finish ==
  /\ pc = "process"
  /\ emotion_index > Len(EmotionOrder)
  /\ stdout' = Append(stdout, SuccessMessage)
  /\ pc' = "done"
  /\ UNCHANGED <<inputs, primary_emotion_images, valid_emotions,
                 primary_image_names, secondary_emotion_images, dirs,
                 combined_emotion_images, emotion_index, images, assigned, copied>>

Next ==
  \/ ReadLabels
  \/ ReadSecondaryLabels
  \/ NoSecondaryLabels
  \/ CreateDirectories
  \/ CombineImages
  \/ SortImages
  \/ SkipEmotion
  \/ SplitEmotion
  \/ Finish

Spec == Init /\ [][Next]_vars

\* ------------------------------------------------------------------------
\* What the properties are stated with
\* ------------------------------------------------------------------------

\* a < b in the str order, stated by the first position where a and b differ
Before(a, b) ==
  \E i \in 1..(Len(b)) :
    /\ i <= Len(a) + 1
    /\ \A j \in 1..(i - 1) : a[j] = b[j]
    /\ \/ i = Len(a) + 1
       \/ i <= Len(a) /\ CodePoint[a[i]] < CodePoint[b[i]]

Ascending(s) == \A i \in 1..(Len(s) - 1) : Before(s[i], s[i + 1])

\* The label rows of the two files, by their positions
PrimaryLabelRows == 2..Len(primary_csv)

SecondaryLabelRows == 2..Len(secondary_csv)

\* The image names and the emotions of the primary source
PrimaryNames == {primary_csv[i][2] : i \in PrimaryLabelRows}

PrimaryEmotions == {NormalizeEmotion(primary_csv[i][3]) : i \in PrimaryLabelRows}

PrimaryImagesOf(e) ==
  {primary_csv[i][2] :
     i \in {j \in PrimaryLabelRows : NormalizeEmotion(primary_csv[j][3]) = e}}

\* The synonym table of the secondary source
Synonym(e) ==
  IF e = Str_sadness THEN Str_sad
  ELSE IF e = Str_happiness THEN Str_happy
  ELSE IF e = Str_fearful THEN Str_fear
  ELSE e

\* The images the secondary source adds to emotion e, given the emotions
\* and the image names of the primary source
FillerOf(e, emotions, names) ==
  IF e \notin emotions THEN {}
  ELSE {secondary_csv[i][2] :
          i \in {j \in SecondaryLabelRows :
                   Synonym(NormalizeEmotion(secondary_csv[j][3])) = e}}
         \ names

Ladder == {10, 20, 30, 40, 50}

SplitNames == {TestSplit} \cup {TrainSplit(k) : k \in Ladder}

SecondaryRead == pc \notin {"read_labels", "read_secondary", "crashed"}

Combined == pc \in {"process", "check", "done"}

Processed(e) == <<TestSplit, e>> \in DOMAIN assigned

Skipped(e) ==
  \E i \in 1..Len(stdout) : stdout[i].msg = "too few" /\ stdout[i].emotion = e

CopiedOf(e) == {c \in copied : c[2] = e}

\* How often image x is reported missing
TimesReported(x) ==
  Cardinality({i \in 1..Len(stdout) : stdout[i] = MissingWarning(x)})

\* In how many selected lists image x stands
TimesSelected(x) == Cardinality({d \in DOMAIN assigned : x \in Range(assigned[d])})

\* ------------------------------------------------------------------------
\* C1
\* ------------------------------------------------------------------------

\* C1: every emotion with at least 60 combined images gets a test set of
\* exactly 10 images and training sets of exactly 10, 20, 30, 40 and 50
\* images, each training set a prefix of the same ascending list of 50
\* distinct images, and no image of train_50 is in the test set.
C1_LadderOfNestedSplits ==
  /\ pc = "done" =>
       \A e \in valid_emotions :
         Cardinality(combined_emotion_images[e]) >= 60 => Processed(e)
  /\ \A e \in valid_emotions :
       Processed(e) =>
         LET test == assigned[<<TestSplit, e>>]
             t50  == assigned[<<TrainSplit(50), e>>]
         IN  /\ Len(test) = 10
             /\ Cardinality(Range(test)) = 10
             /\ Len(t50) = 50
             /\ Cardinality(Range(t50)) = 50
             /\ Ascending(t50)
             /\ \A k \in Ladder :
                  /\ Len(assigned[<<TrainSplit(k), e>>]) = k
                  /\ assigned[<<TrainSplit(k), e>>] = SubSeq(t50, 1, k)
             /\ \A k \in Ladder \ {50} :
                  Range(assigned[<<TrainSplit(k), e>>])
                    \subseteq Range(assigned[<<TrainSplit(k + 10), e>>])
             /\ Range(t50) \cap Range(test) = {}

\* C1 happens: a run has ended that split an emotion of at least 60 images.
C1_Witness ==
  /\ pc = "done"
  /\ \E e \in valid_emotions :
       Cardinality(combined_emotion_images[e]) >= 60 /\ Processed(e)

\* ------------------------------------------------------------------------
\* C2
\* ------------------------------------------------------------------------

\* C2: once the secondary CSV is read, its map holds under no emotion an
\* image name of the primary source.
C2_FillerDisjointFromPrimary ==
  SecondaryRead =>
    \A e \in DOMAIN secondary_emotion_images :
      secondary_emotion_images[e] \cap PrimaryNames = {}

\* C2 happens: the secondary CSV labels a primary image with a valid
\* emotion, and its map is not empty.
C2_Witness ==
  /\ SecondaryRead
  /\ DOMAIN secondary_emotion_images # {}
  /\ \E i \in SecondaryLabelRows :
       /\ secondary_csv[i][2] \in PrimaryNames
       /\ Synonym(NormalizeEmotion(secondary_csv[i][3])) \in PrimaryEmotions

\* ------------------------------------------------------------------------
\* C3
\* ------------------------------------------------------------------------

\* C3: the secondary map holds image i under emotion e exactly when a label
\* row of the secondary CSV names i with an emotion that, trimmed, lowercased
\* and then remapped, is e, e is an emotion of the primary source and i is no
\* primary image; the combined set of e is its primary images and these.
C3_FillerIsRemappedValidNew ==
  LET emotions == PrimaryEmotions
      names    == PrimaryNames
  IN  /\ SecondaryRead =>
           /\ \A e \in DOMAIN secondary_emotion_images :
                e \in emotions /\ secondary_emotion_images[e] # {}
           /\ \A e \in emotions \cup {Str_happiness, Str_sadness, Str_fearful} :
                Get(secondary_emotion_images, e) = FillerOf(e, emotions, names)
      /\ Combined =>
           /\ DOMAIN combined_emotion_images = emotions
           /\ \A e \in emotions :
                combined_emotion_images[e]
                  = PrimaryImagesOf(e) \cup FillerOf(e, emotions, names)

\* C3 happens: the primary CSV labels an image "Happy", the secondary CSV
\* labels the same image "happy" and a new image "happiness", and the
\* combined set of happy holds both.
C3_Witness ==
  /\ Combined
  /\ \E i \in PrimaryLabelRows, j \in SecondaryLabelRows, k \in SecondaryLabelRows :
       LET p == primary_csv[i]
           q == secondary_csv[j]
           r == secondary_csv[k]
       IN  /\ p[3] = <<"H","a","p","p","y">>
           /\ q[2] = p[2] /\ q[3] = Str_happy
           /\ r[3] = Str_happiness /\ r[2] \notin PrimaryNames
           /\ {p[2], r[2]} \subseteq combined_emotion_images[Str_happy]
           /\ r[2] \in secondary_emotion_images[Str_happy]
           /\ p[2] \notin secondary_emotion_images[Str_happy]

\* ------------------------------------------------------------------------
\* C4
\* ------------------------------------------------------------------------

\* C4: an emotion whose primary source alone has at least 60 images gets no
\* image of the secondary source in its test set or in a training set.
C4_SecondaryOnlyFillsGaps ==
  \A d \in DOMAIN assigned :
    Cardinality(PrimaryImagesOf(d[2])) >= 60 =>
      Range(assigned[d]) \cap Get(secondary_emotion_images, d[2]) = {}

\* ------------------------------------------------------------------------
\* C5
\* ------------------------------------------------------------------------

\* C5: an emotion with fewer than 60 combined images is skipped: nothing is
\* copied into its folders and no list is selected for it; the run does not
\* raise, and when it has ended the warning with the emotion's count is
\* out and every emotion with at least 60 images has been split.
C5_TooFewImagesSkipsEmotion ==
  /\ pc # "crashed"
  /\ Combined =>
       \A e \in valid_emotions :
         Cardinality(combined_emotion_images[e]) < 60 =>
           /\ CopiedOf(e) = {}
           /\ ~Processed(e)
           /\ pc = "done" =>
                \E i \in 1..Len(stdout) :
                  stdout[i] = CountWarning(e, Cardinality(combined_emotion_images[e]))
  /\ pc = "done" =>
       \A e \in valid_emotions :
         Cardinality(combined_emotion_images[e]) >= 60 =>
           Processed(e) /\ ~Skipped(e)

\* C5 happens: a run has ended that skipped an emotion of exactly 59 images
\* and went on to split and copy another emotion after it.
C5_Witness ==
  /\ pc = "done"
  /\ \E i \in 1..Len(EmotionOrder), j \in 1..Len(EmotionOrder) :
       /\ i < j
       /\ Cardinality(combined_emotion_images[EmotionOrder[i]]) = 59
       /\ Skipped(EmotionOrder[i])
       /\ CopiedOf(EmotionOrder[i]) = {}
       /\ Processed(EmotionOrder[j])
       /\ CopiedOf(EmotionOrder[j]) # {}

\* ------------------------------------------------------------------------
\* C6
\* ------------------------------------------------------------------------

\* What a run has copied and reported after each emotion: every selected
\* image that is in image_dir is in every folder it was selected for, a
\* selected image that is not is in none and is reported once for each list
\* it stands in, and nothing else is copied or reported missing.
CopiesComplete ==
  /\ copied = {<<d[1], d[2], x>> :
                 d \in DOMAIN assigned, x \in image_dir} \cap
              UNION {{<<d[1], d[2], x>> : x \in Range(assigned[d])} :
                       d \in DOMAIN assigned}
  /\ \A i \in 1..Len(stdout) :
       stdout[i].msg = "not found" => stdout[i].image \notin image_dir
  /\ \A x \in (UNION {Range(assigned[d]) : d \in DOMAIN assigned}) \ image_dir :
       TimesReported(x) = TimesSelected(x)

\* C6: a selected image that is missing from image_dir is reported and not
\* copied, every other selected image is copied to each split it was
\* selected for, and the run does not raise: it goes on to the next
\* emotion, and ends with the success message as its last line.
C6_MissingImageIsSkipped ==
  /\ pc # "crashed"
  /\ CopiesComplete
  /\ pc = "check" => emotion_index <= Len(EmotionOrder)
  /\ pc = "done" =>
       /\ emotion_index = Len(EmotionOrder) + 1
       /\ stdout[Len(stdout)] = SuccessMessage
       /\ \A e \in valid_emotions : Processed(e) \/ Skipped(e)

\* C6 happens: a run has ended in which a selected image was missing and
\* reported, and the other images of the same list were copied.
C6_Witness ==
  /\ pc = "done"
  /\ \E d \in DOMAIN assigned :
       \E x \in Range(assigned[d]), y \in Range(assigned[d]) :
         /\ x \notin image_dir
         /\ TimesReported(x) > 0
         /\ <<d[1], d[2], x>> \notin copied
         /\ Before(x, y)
         /\ <<d[1], d[2], y>> \in copied

\* ------------------------------------------------------------------------
\* C7
\* ------------------------------------------------------------------------

\* The label rows of a CSV file in the opposite order
ReverseData(csv) == <<Head(csv)>> \o Reverse(Tail(csv))

\* C7: the lists a finished run selected are the lists of the run on the
\* same labelled rows in the opposite row order and with the other set
\* iteration order.
C7_SplitIsDeterministic ==
  pc = "done" =>
    LET other_seed == 1 - hash_seed
        primary    == read_labels(ReverseData(primary_csv))
        secondary  ==
          IF secondary_csv_path
            THEN read_secondary_labels(ReverseData(secondary_csv),
                                       primary.emotions_set, label_mapping,
                                       Values(primary.emotion_images)).emotion_images
            ELSE EmptyDict
    IN  /\ primary.emotions_set = valid_emotions
        /\ \A e \in valid_emotions :
             LET other_images ==
                   SortList(IterSet(primary.emotion_images[e] \cup Get(secondary, e),
                                    other_seed))
             IN  IF TooFew(other_images)
                   THEN ~Processed(e)
                   ELSE /\ Processed(e)
                        /\ \A sp \in SplitNames :
                             assigned[<<sp, e>>]
                               = Assignment(e, SelectedImages(other_images))[<<sp, e>>]

\* C7 happens: a run has ended that split an emotion whose set is iterated
\* in an order other than the ascending one, from a CSV whose reversal
\* is another file.
C7_Witness ==
  /\ pc = "done"
  /\ ReverseData(primary_csv) # primary_csv
  /\ \E e \in valid_emotions :
       /\ Processed(e)
       /\ ~Ascending(IterSet(combined_emotion_images[e], hash_seed))
       /\ IterSet(combined_emotion_images[e], hash_seed)
            # IterSet(combined_emotion_images[e], 1 - hash_seed)

\* ------------------------------------------------------------------------
\* C8
\* ------------------------------------------------------------------------

NoImageUnderTwoEmotions(d) ==
  \A e1 \in DOMAIN d, e2 \in DOMAIN d : e1 # e2 => d[e1] \cap d[e2] = {}

\* C8: in the map of read_labels, in the map of read_secondary_labels and in
\* the combined map no image name stands under two different emotions.
C8_NoImageUnderTwoEmotions ==
  /\ NoImageUnderTwoEmotions(primary_emotion_images)
  /\ NoImageUnderTwoEmotions(secondary_emotion_images)
  /\ NoImageUnderTwoEmotions(combined_emotion_images)

\* ------------------------------------------------------------------------
\* C9
\* ------------------------------------------------------------------------

\* C9: for an emotion with at least 60 combined images, train_50 followed by
\* the test set is the first 60 names of the ascending list S of its
\* combined set: train_k is S[1..k], the test set is S[51..60]; an image
\* beyond position 60 of S is in none of the emotion's folders, and no
\* warning about the emotion's count is out.
C9_FirstSixtyInStrOrder ==
  \A e \in valid_emotions :
    /\ (pc = "done" /\ Cardinality(combined_emotion_images[e]) >= 60) => Processed(e)
    /\ Processed(e) =>
         LET first60 == assigned[<<TrainSplit(50), e>>] \o assigned[<<TestSplit, e>>]
             rest    == combined_emotion_images[e] \ Range(first60)
         IN  /\ Len(first60) = 60
             /\ Ascending(first60)
             /\ Range(first60) \subseteq combined_emotion_images[e]
             /\ \A x \in rest : Before(first60[60], x)
             /\ assigned[<<TestSplit, e>>] = SubSeq(first60, 51, 60)
             /\ \A k \in Ladder : assigned[<<TrainSplit(k), e>>] = SubSeq(first60, 1, k)
             /\ \A c \in CopiedOf(e) : c[3] \notin rest
             /\ ~Skipped(e)

\* C9 happens: a run has ended that split an emotion of more than 60 images,
\* leaving out an image that is in image_dir.
C9_Witness ==
  /\ pc = "done"
  /\ \E e \in valid_emotions :
       /\ Processed(e)
       /\ Cardinality(combined_emotion_images[e]) > 60
       /\ \E x \in combined_emotion_images[e] \cap image_dir :
            \A c \in CopiedOf(e) : c[3] # x

\* ------------------------------------------------------------------------
\* C10
\* ------------------------------------------------------------------------

\* C10: a step that copies finds the folder of every split and every
\* emotion of the primary source made, those of the emotions that are
\* skipped too; every copy goes into a folder that exists, of an emotion of
\* the primary source; and no copy raises.
C10_DirectoriesBeforeCopies ==
  /\ [][copied' # copied =>
          /\ {<<sp, e>> : sp \in SplitNames, e \in PrimaryEmotions} \subseteq dirs
          /\ \A c \in copied' \ copied :
               <<c[1], c[2]>> \in dirs /\ c[2] \in PrimaryEmotions]_vars
  /\ [](pc # "crashed")

\* C10 happens: images have been copied in a run that skips an emotion,
\* whose folders are there and empty.
C10_Witness ==
  /\ pc = "done"
  /\ copied # {}
  /\ \E e \in valid_emotions :
       /\ Skipped(e)
       /\ \A sp \in SplitNames : <<sp, e>> \in dirs
       /\ CopiedOf(e) = {}

=============================================================================
